---- MODULE Spec2Model ----
(***************************************************************************)
(* Model of src/src/util/http_date.rs: the HttpDate header value type.     *)
(*                                                                         *)
(* HttpDate is a newtype over httpdate::HttpDate; every operation of the   *)
(* wrapper delegates to that type (s.parse() at line 90, Display::fmt at   *)
(* line 102, sys.into() at line 108, SystemTime::from at lines 46 and 114, *)
(* the derived PartialEq/Ord at line 35).  The operators below therefore   *)
(* model the delegated httpdate routine at the place the wrapper calls it. *)
(*                                                                         *)
(* Representation.                                                         *)
(*  - a text is a sequence of characters, each a one-character string; the *)
(*    tokens "<E9>" and "<7F>" stand for one byte >= 0x80 and for DEL;     *)
(*  - a SystemTime is [days, sod, nanos]: whole days since 1970-01-01,     *)
(*    second of the day and nanoseconds, i.e. days*86400 + sod seconds     *)
(*    (kept split because the second counts of year 9999 exceed the        *)
(*    integers of the model checker);                                      *)
(*  - an HttpDate is the record of the seven fields of httpdate::HttpDate. *)
(***************************************************************************)
EXTENDS Integers, Sequences, FiniteSets, TLC

(***************************************************************************)
(* Rust integer division and remainder (truncating towards zero).          *)
(***************************************************************************)
TruncDiv(a, b) == IF a >= 0 THEN a \div b ELSE -((-a) \div b)

TruncRem(a, b) == a - b * TruncDiv(a, b)

(***************************************************************************)
(* let v = ...; Op(v): the value is computed once, then used.              *)
(***************************************************************************)
Bind(v, Op(_)) == CHOOSE r \in {Op(x) : x \in {v}} : TRUE

(***************************************************************************)
(* Byte slices: s[a..b] and s[i] with the zero-based indices of the code.  *)
(***************************************************************************)
Slice(s, a, b) == SubSeq(s, a + 1, b)

At(s, i) == s[i + 1]

DigitChars == <<"0", "1", "2", "3", "4", "5", "6", "7", "8", "9">>

WdayShort ==
  << <<"M","o","n">>, <<"T","u","e">>, <<"W","e","d">>, <<"T","h","u">>,
     <<"F","r","i">>, <<"S","a","t">>, <<"S","u","n">> >>

WdayLong ==
  << <<"M","o","n","d","a","y">>, <<"T","u","e","s","d","a","y">>,
     <<"W","e","d","n","e","s","d","a","y">>, <<"T","h","u","r","s","d","a","y">>,
     <<"F","r","i","d","a","y">>, <<"S","a","t","u","r","d","a","y">>,
     <<"S","u","n","d","a","y">> >>

MonShort ==
  << <<"J","a","n">>, <<"F","e","b">>, <<"M","a","r">>, <<"A","p","r">>,
     <<"M","a","y">>, <<"J","u","n">>, <<"J","u","l">>, <<"A","u","g">>,
     <<"S","e","p">>, <<"O","c","t">>, <<"N","o","v">>, <<"D","e","c">> >>

GMT == <<" ", "G", "M", "T">>

(***************************************************************************)
(* Values.                                                                 *)
(***************************************************************************)
NoDate == [sec |-> 0, min |-> 0, hour |-> 0, day |-> 0, mon |-> 0, year |-> 0, wday |-> 0]

NoTime == [days |-> 0 - 1, sod |-> 0 - 1, nanos |-> 0 - 1]

Ok(v) == [ok |-> TRUE, panic |-> FALSE, val |-> v]

Err == [ok |-> FALSE, panic |-> FALSE, val |-> NoDate]

Panic == [ok |-> FALSE, panic |-> TRUE, val |-> NoDate]

(***************************************************************************)
(* Character classes.                                                      *)
(***************************************************************************)
\* char::is_ascii, as used by str::is_ascii in httpdate's from_str
IsAsciiChar(c) == c # "<E9>"

\* the ASCII white space that str::trim removes
IsWhitespace(c) == c \in {" ", "\t", "\n", "\r", "\f"}

\* http::header::value::is_visible_ascii, the test of HeaderValue::to_str
IsVisibleAscii(c) == c = "\t" \/ (IsAsciiChar(c) /\ c \notin {"\n", "\r", "\f", "<7F>"})

\* http::header::value::is_valid, the test of HeaderValue::from_maybe_shared
IsValidHeaderByte(c) == c = "\t" \/ c \notin {"\n", "\r", "\f", "<7F>"}

(***************************************************************************)
(* httpdate: digits.                                                       *)
(***************************************************************************)
IsDigit(c) == \E i \in 1..10 : DigitChars[i] = c

DigitVal(c) == (CHOOSE i \in 1..10 : DigitChars[i] = c) - 1

\* toint_1 .. toint_4 return Err on a non-digit; IntOk is the test, the
\* value operators are used only where IntOk holds
IntOk(s) == \A i \in 1..Len(s) : IsDigit(s[i])

toint_1(c) == DigitVal(c)

toint_2(s) == DigitVal(s[1]) * 10 + DigitVal(s[2])

toint_4(s) == DigitVal(s[1]) * 1000 + DigitVal(s[2]) * 100 + DigitVal(s[3]) * 10 + DigitVal(s[4])

\* match on a three-letter name: the index of the name, 0 when none matches
NameIndex(names, s) ==
  IF \E i \in 1..Len(names) : names[i] = s
  THEN CHOOSE i \in 1..Len(names) : names[i] = s
  ELSE 0


\* the leap year rule without its 400-year exception
is_leap_year_no400(y) == y % 4 = 0 /\ y % 100 # 0

is_leap_year(y) == y % 4 = 0 /\ (y % 100 # 0 \/ y % 400 = 0)

(***************************************************************************)
(* httpdate: impl From<SystemTime> for HttpDate, reached by sys.into().    *)
(* duration_since(UNIX_EPOCH).expect(..) panics before the epoch, and an   *)
(* instant of year 10000 or later panics ("date must be before year       *)
(* 9999"): 253402300800 seconds are 2932897 whole days.                    *)
(***************************************************************************)
MonthLens == <<31, 30, 31, 30, 31, 31, 30, 31, 30, 31, 31, 29>>

RECURSIVE MonthLoop(_, _)
MonthLoop(i, remdays) ==
  Bind(remdays, LAMBDA rem :
    IF i > 12 THEN [mon |-> 12, rem |-> rem]
    ELSE IF rem < MonthLens[i] THEN [mon |-> i, rem |-> rem]
    ELSE MonthLoop(i + 1, rem - MonthLens[i]))

CivilFromDays(daysSinceEpoch, secs_of_day) ==
  Bind(daysSinceEpoch - 11017, LAMBDA days :
  Bind(TruncRem(days, 146097), LAMBDA rem0 :
  Bind(IF rem0 < 0 THEN rem0 + 146097 ELSE rem0, LAMBDA remdays1 :
  Bind(IF rem0 < 0 THEN TruncDiv(days, 146097) - 1 ELSE TruncDiv(days, 146097), LAMBDA qc_cycles :
  Bind(IF remdays1 \div 36524 = 4 THEN 3 ELSE remdays1 \div 36524, LAMBDA c_cycles :
  Bind(remdays1 - c_cycles * 36524, LAMBDA remdays2 :
  Bind(IF remdays2 \div 1461 = 25 THEN 24 ELSE remdays2 \div 1461, LAMBDA q_cycles :
  Bind(remdays2 - q_cycles * 1461, LAMBDA remdays3 :
  Bind(IF remdays3 \div 365 = 4 THEN 3 ELSE remdays3 \div 365, LAMBDA remyears :
  Bind(2000 + remyears + 4 * q_cycles + 100 * c_cycles + 400 * qc_cycles, LAMBDA year0 :
  Bind(MonthLoop(1, remdays3 - remyears * 365), LAMBDA ml :
  Bind(TruncRem(3 + days, 7), LAMBDA w0 :
  Bind(secs_of_day, LAMBDA sod :
    [sec |-> sod % 60,
     min |-> (sod % 3600) \div 60,
     hour |-> sod \div 3600,
     day |-> ml.rem + 1,
     mon |-> IF ml.mon + 2 > 12 THEN ml.mon - 10 ELSE ml.mon + 2,
     year |-> IF ml.mon + 2 > 12 THEN year0 + 1 ELSE year0,
     wday |-> IF w0 <= 0 THEN w0 + 7 ELSE w0])))))))))))))

HttpDateFrom(sys) ==
  Bind(sys, LAMBDA t :
    IF t.days < 0 THEN Panic
    ELSE IF t.days >= 2932897 THEN Panic
    ELSE Ok(CivilFromDays(t.days, t.sod)))

(***************************************************************************)
(* httpdate: impl From<HttpDate> for SystemTime (lines 46 and 114).  Only  *)
(* called on dates with 1 <= mon <= 12, day >= 1 and year >= 1970, so the  *)
(* unsigned subtractions of the code do not wrap.                          *)
(***************************************************************************)
YdaysBefore == <<0, 31, 59, 90, 120, 151, 181, 212, 243, 273, 304, 334>>

SystemTimeFrom(date) ==
  Bind(date, LAMBDA v :
    LET leap_years == ((v.year - 1) - 1968) \div 4 - ((v.year - 1) - 1900) \div 100
                      + ((v.year - 1) - 1600) \div 400
        ydays == YdaysBefore[v.mon] + v.day - 1
                 + (IF is_leap_year(v.year) /\ v.mon > 2 THEN 1 ELSE 0)
        days == (v.year - 1970) * 365 + leap_years + ydays
        secs == v.sec + v.min * 60 + v.hour * 3600
    IN [days |-> days + secs \div 86400, sod |-> secs % 86400, nanos |-> 0])

\* SystemTime's Ord: seconds first, then nanoseconds
SystemTimeCmp(a, b) ==
  IF a.days # b.days THEN (IF a.days < b.days THEN "Less" ELSE "Greater")
  ELSE IF a.sod # b.sod THEN (IF a.sod < b.sod THEN "Less" ELSE "Greater")
  ELSE IF a.nanos # b.nanos THEN (IF a.nanos < b.nanos THEN "Less" ELSE "Greater")
  ELSE "Equal"

(***************************************************************************)
(* #[derive(PartialEq, Eq, PartialOrd, Ord)] on the newtype (line 35)      *)
(* compares the wrapped httpdate::HttpDate, whose PartialEq and Ord        *)
(* compare SystemTime::from of both sides (the comment at lines 43-45).    *)
(***************************************************************************)
HttpDateEq(x, y) == SystemTimeFrom(x) = SystemTimeFrom(y)

HttpDateCmp(x, y) == SystemTimeCmp(SystemTimeFrom(x), SystemTimeFrom(y))


\* a hash of the stored fields, as #[derive(Hash)] on the fields would give
HttpDateHash_fields(x) == x

\* impl Hash for HttpDate: what is fed to the hasher
HttpDateHash(x) == SystemTimeFrom(x)

(***************************************************************************)
(* httpdate: HttpDate::is_valid, the last step of from_str.  Its last      *)
(* conjunct compares with the SystemTime-based PartialEq above.            *)
(***************************************************************************)
is_valid(d) ==
  /\ d.sec < 60
  /\ d.min < 60
  /\ d.hour < 24
  /\ d.day > 0
  /\ d.day < 32
  /\ d.mon > 0
  /\ d.mon <= 12
  /\ d.year >= 1970
  /\ d.year <= 9999
  /\ \E back \in {HttpDateFrom(SystemTimeFrom(d))} : back.ok /\ HttpDateEq(back.val, d)

\* the round trip inside is_valid panics when From<SystemTime> does
is_valid_panics(d) ==
  /\ d.sec < 60 /\ d.min < 60 /\ d.hour < 24 /\ d.day > 0 /\ d.day < 32
  /\ d.mon > 0 /\ d.mon <= 12 /\ d.year >= 1970 /\ d.year <= 9999
  /\ HttpDateFrom(SystemTimeFrom(d)).panic


\* grammar 1 with the length test relaxed to "at least 29 bytes"
parse_imf_fixdate_prefix(s) ==
  IF Len(s) < 29 THEN Err
  ELSE
    LET p == Slice(s, 0, 29)
        mon == IF At(p, 7) = " " /\ At(p, 11) = " " THEN NameIndex(MonShort, Slice(p, 8, 11)) ELSE 0
        wday == IF Slice(p, 3, 5) = <<",", " ">> THEN NameIndex(WdayShort, Slice(p, 0, 3)) ELSE 0
    IN IF /\ Slice(p, 25, 29) = GMT /\ At(p, 16) = " " /\ At(p, 19) = ":" /\ At(p, 22) = ":"
          /\ IntOk(Slice(p, 23, 25)) /\ IntOk(Slice(p, 20, 22)) /\ IntOk(Slice(p, 17, 19))
          /\ IntOk(Slice(p, 5, 7)) /\ mon # 0 /\ IntOk(Slice(p, 12, 16)) /\ wday # 0
       THEN Ok([sec |-> toint_2(Slice(p, 23, 25)), min |-> toint_2(Slice(p, 20, 22)),
                hour |-> toint_2(Slice(p, 17, 19)), day |-> toint_2(Slice(p, 5, 7)),
                mon |-> mon, year |-> toint_4(Slice(p, 12, 16)), wday |-> wday])
       ELSE Err

(***************************************************************************)
(* httpdate: the three grammar parsers tried by from_str.                  *)
(***************************************************************************)
\* Example: Sun, 06 Nov 1994 08:49:37 GMT
parse_imf_fixdate(s) ==
  IF Len(s) # 29 \/ Slice(s, 25, 29) # GMT \/ At(s, 16) # " " \/ At(s, 19) # ":"
     \/ At(s, 22) # ":"
  THEN Err
  ELSE
    LET mon == IF At(s, 7) = " " /\ At(s, 11) = " " THEN NameIndex(MonShort, Slice(s, 8, 11)) ELSE 0
        wday == IF Slice(s, 3, 5) = <<",", " ">> THEN NameIndex(WdayShort, Slice(s, 0, 3)) ELSE 0
    IN IF /\ IntOk(Slice(s, 23, 25)) /\ IntOk(Slice(s, 20, 22)) /\ IntOk(Slice(s, 17, 19))
          /\ IntOk(Slice(s, 5, 7)) /\ mon # 0 /\ IntOk(Slice(s, 12, 16)) /\ wday # 0
       THEN Ok([sec |-> toint_2(Slice(s, 23, 25)), min |-> toint_2(Slice(s, 20, 22)),
                hour |-> toint_2(Slice(s, 17, 19)), day |-> toint_2(Slice(s, 5, 7)),
                mon |-> mon, year |-> toint_4(Slice(s, 12, 16)), wday |-> wday])
       ELSE Err


\* the two-digit year window with the pivot one year early
ExpandYear_pivot69(yy) == Bind(yy, LAMBDA y : IF y < 69 THEN y + 2000 ELSE y + 1900)

\* parse_rfc850_date: if year < 70 { year += 2000 } else { year += 1900 }
ExpandYear(yy) == Bind(yy, LAMBDA year : IF year < 70 THEN year + 2000 ELSE year + 1900)

\* the local fn wday of parse_rfc850_date, tried for Monday .. Sunday in turn:
\* the index of the first long name followed by ", " that s starts with
LongWdayOf(s) ==
  LET hit(i) == LET n == WdayLong[i] \o <<",", " ">> IN Slice(s, 0, Len(n)) = n
  IN IF \E i \in 1..7 : hit(i) THEN CHOOSE i \in 1..7 : hit(i) /\ \A j \in 1..(i - 1) : ~hit(j)
     ELSE 0

\* Example: Sunday, 06-Nov-94 08:49:37 GMT
parse_rfc850_date(s0) ==
  IF Len(s0) < 23 THEN Err
  ELSE
    Bind(LongWdayOf(s0), LAMBDA wday :
      IF wday = 0 THEN Err
      ELSE
        Bind(Slice(s0, Len(WdayLong[wday]) + 2, Len(s0)), LAMBDA s :
          IF Len(s) # 22 \/ At(s, 12) # ":" \/ At(s, 15) # ":" \/ Slice(s, 18, 22) # GMT
          THEN Err
          ELSE IF ~IntOk(Slice(s, 7, 9)) THEN Err
          ELSE
            LET year == ExpandYear(toint_2(Slice(s, 7, 9)))
                mon == IF At(s, 2) = "-" /\ At(s, 6) = "-"
                       THEN NameIndex(MonShort, Slice(s, 3, 6)) ELSE 0
            IN IF /\ IntOk(Slice(s, 16, 18)) /\ IntOk(Slice(s, 13, 15))
                  /\ IntOk(Slice(s, 10, 12)) /\ IntOk(Slice(s, 0, 2)) /\ mon # 0
               THEN Ok([sec |-> toint_2(Slice(s, 16, 18)), min |-> toint_2(Slice(s, 13, 15)),
                        hour |-> toint_2(Slice(s, 10, 12)), day |-> toint_2(Slice(s, 0, 2)),
                        mon |-> mon, year |-> year, wday |-> wday])
               ELSE Err))

\* Example: Sun Nov  6 08:49:37 1994
parse_asctime(s) ==
  IF Len(s) # 24 \/ At(s, 10) # " " \/ At(s, 13) # ":" \/ At(s, 16) # ":" \/ At(s, 19) # " "
  THEN Err
  ELSE
    LET x == Slice(s, 8, 10)
        dayOk == IF x[1] = " " THEN IsDigit(x[2]) ELSE IntOk(x)
        mon == IF At(s, 7) = " " THEN NameIndex(MonShort, Slice(s, 4, 7)) ELSE 0
        wday == IF At(s, 3) = " " THEN NameIndex(WdayShort, Slice(s, 0, 3)) ELSE 0
    IN IF /\ IntOk(Slice(s, 17, 19)) /\ IntOk(Slice(s, 14, 16)) /\ IntOk(Slice(s, 11, 13))
          /\ dayOk /\ mon # 0 /\ IntOk(Slice(s, 20, 24)) /\ wday # 0
       THEN Ok([sec |-> toint_2(Slice(s, 17, 19)), min |-> toint_2(Slice(s, 14, 16)),
                hour |-> toint_2(Slice(s, 11, 13)),
                day |-> IF x[1] = " " THEN toint_1(x[2]) ELSE toint_2(x),
                mon |-> mon, year |-> toint_4(Slice(s, 20, 24)), wday |-> wday])
       ELSE Err

\* str::trim
RECURSIVE TrimStart(_)
TrimStart(s) == IF Len(s) > 0 /\ IsWhitespace(s[1]) THEN TrimStart(Tail(s)) ELSE s

RECURSIVE TrimEnd(_)
TrimEnd(s) ==
  IF Len(s) > 0 /\ IsWhitespace(s[Len(s)]) THEN TrimEnd(SubSeq(s, 1, Len(s) - 1)) ELSE s

Trim(s) == TrimEnd(TrimStart(s))

\* the ordered attempt: grammar 1, or else grammar 2, or else grammar 3
ParseAny(x) ==
  Bind(parse_imf_fixdate(x), LAMBDA a :
    IF a.ok THEN a
    ELSE Bind(parse_rfc850_date(x), LAMBDA b : IF b.ok THEN b ELSE parse_asctime(x)))

\* httpdate's FromStr for httpdate::HttpDate
HttpdateFromStr(str) ==
  Bind(str, LAMBDA s :
    IF \E i \in 1..Len(s) : ~IsAsciiChar(s[i]) THEN Err
    ELSE
      Bind(Trim(s), LAMBDA x :
        Bind(ParseAny(x), LAMBDA date :
          IF ~date.ok THEN Err
          ELSE IF is_valid_panics(date.val) THEN Panic
          ELSE IF ~is_valid(date.val) THEN Err
          ELSE date)))

(***************************************************************************)
(* impl FromStr for HttpDate (lines 87-92): s.parse() with the error       *)
(* mapped to the opaque Error(()).                                         *)
(***************************************************************************)
from_str(s) == HttpdateFromStr(s)

(***************************************************************************)
(* impl fmt::Display for HttpDate (lines 100-104) and to_string: the       *)
(* 29-byte buffer of httpdate's Display, filled from the stored fields.    *)
(***************************************************************************)
Dig(n) == DigitChars[(n % 10) + 1]

Dig2(n) == <<Dig(n \div 10), Dig(n)>>

Dig4(n) == <<Dig(n \div 1000), Dig(n \div 100), Dig(n \div 10), Dig(n)>>


\* the day written space-padded, as {:2} in place of {:02} would
to_string_spacepad(d) ==
  WdayShort[d.wday] \o <<",", " ">>
    \o (IF d.day < 10 THEN <<" ", Dig(d.day)>> ELSE Dig2(d.day)) \o <<" ">> \o MonShort[d.mon]
    \o <<" ">> \o Dig4(d.year) \o <<" ">> \o Dig2(d.hour) \o <<":">> \o Dig2(d.min) \o <<":">>
    \o Dig2(d.sec) \o GMT

\* the day written without padding, as {} in place of {:02} would
to_string_unpadded(d) ==
  WdayShort[d.wday] \o <<",", " ">>
    \o (IF d.day < 10 THEN <<Dig(d.day)>> ELSE Dig2(d.day)) \o <<" ">> \o MonShort[d.mon]
    \o <<" ">> \o Dig4(d.year) \o <<" ">> \o Dig2(d.hour) \o <<":">> \o Dig2(d.min) \o <<":">>
    \o Dig2(d.sec) \o GMT

to_string(d) ==
  WdayShort[d.wday] \o <<",", " ">> \o Dig2(d.day) \o <<" ">> \o MonShort[d.mon] \o <<" ">>
    \o Dig4(d.year) \o <<" ">> \o Dig2(d.hour) \o <<":">> \o Dig2(d.min) \o <<":">>
    \o Dig2(d.sec) \o GMT

(***************************************************************************)
(* HeaderValue conversions used by the wrapper.                            *)
(***************************************************************************)
\* HeaderValue::to_str: the text when every byte is visible ASCII
to_str_ok(val) == \A i \in 1..Len(val) : IsVisibleAscii(val[i])

\* HttpDate::from_val (lines 51-53): val.to_str().ok()?.parse().ok()
from_val(val) ==
  IF ~to_str_ok(val) THEN Err
  ELSE Bind(from_str(val), LAMBDA r : IF r.panic THEN Panic ELSE IF r.ok THEN r ELSE Err)

\* IterExt::just_one of util/mod.rs: the first item when there is no second
just_one(vals) == IF Len(vals) = 1 THEN <<vals[1]>> ELSE <<>>


\* the first value taken whether or not others follow
try_from_values_first(vals) == IF Len(vals) = 0 THEN Err ELSE from_val(vals[1])

\* impl TryFromValues for HttpDate (lines 60-70):
\* values.just_one().and_then(HttpDate::from_val).ok_or_else(Error::invalid)
try_from_values(vals) ==
  Bind(just_one(vals), LAMBDA one : IF one = <<>> THEN Err ELSE from_val(one[1]))

\* impl From<&HttpDate> for HeaderValue (lines 78-85): from_maybe_shared fails,
\* and the expect panics, on a byte that is not a valid header value byte
into_header_value_ok(d) ==
  LET str == to_string(d) IN \A i \in 1..Len(str) : IsValidHeaderByte(str[i])

(***************************************************************************)
(* Inputs.  The texts handed to the parser are built from field numbers in *)
(* the three formats of the comment at lines 19-28, then possibly damaged. *)
(***************************************************************************)
MaxValues == 2

NumDayStrides == 25

MonToken(m) == IF m \in 1..12 THEN MonShort[m] ELSE <<"F", "o", "o">>

TimeText(f) == Dig2(f.hour) \o <<":">> \o Dig2(f.min) \o <<":">> \o Dig2(f.sec)

\* Sun, 06 Nov 1994 08:49:37 GMT
ImfText(f) ==
  WdayShort[f.wday] \o <<",", " ">> \o Dig2(f.day) \o <<" ">> \o MonToken(f.mon) \o <<" ">>
    \o Dig4(f.year) \o <<" ">> \o TimeText(f) \o GMT

\* Sunday, 06-Nov-94 08:49:37 GMT
Rfc850Text(f) ==
  WdayLong[f.wday] \o <<",", " ">> \o Dig2(f.day) \o <<"-">> \o MonToken(f.mon) \o <<"-">>
    \o Dig2(f.year) \o <<" ">> \o TimeText(f) \o GMT

\* Sun Nov  6 08:49:37 1994
AsctimeText(f) ==
  WdayShort[f.wday] \o <<" ">> \o MonToken(f.mon) \o <<" ">>
    \o (IF f.day < 10 THEN <<" ", Dig(f.day)>> ELSE Dig2(f.day)) \o <<" ">>
    \o TimeText(f) \o <<" ">> \o Dig4(f.year)

GrammarText(g, f) ==
  IF g = 1 THEN ImfText(f) ELSE IF g = 2 THEN Rfc850Text(f) ELSE AsctimeText(f)

FirstIndex(str, c) == CHOOSE i \in 1..Len(str) : str[i] = c /\ \A j \in 1..(i - 1) : str[j] # c

ReplaceAt(str, i, c) == [str EXCEPT ![i] = c]

Mutations ==
  {"pad", "prefix", "suffix", "drop", "colon", "zone", "badwday", "tab", "nonascii", "digit"}

Mutate(str, m) ==
  CASE m = "pad" -> <<" ">> \o str \o <<" ", "\t">>
    [] m = "prefix" -> <<"x">> \o str
    [] m = "suffix" -> str \o <<"x">>
    [] m = "drop" -> SubSeq(str, 1, Len(str) - 1)
    [] m = "colon" -> ReplaceAt(str, FirstIndex(str, ":"), ".")
    [] m = "zone" -> SubSeq(str, 1, Len(str) - 3) \o <<"U", "T", "C">>
    [] m = "badwday" -> ReplaceAt(str, 1, "X")
    [] m = "tab" -> ReplaceAt(str, FirstIndex(str, " "), "\t")
    [] m = "nonascii" -> str \o <<"<E9>">>
    [] m = "digit" -> ReplaceAt(str, Len(str) - 5, "x")
    [] OTHER -> str

\* sampled instants: strides of 1531 days from the epoch, the days around the
\* leap days, the century and the two-digit-year window, and the last day
DaySamples ==
  {k * 1531 : k \in 0..NumDayStrides}
    \cup {1, 58, 59, 789, 9076, 10956, 11016, 11017, 11383, 36524, 36525, 47540, 47541,
          157113, 2932896}

SodSamples == {0, 31717, 86399}

ValidInstants ==
  {[days |-> d, sod |-> sd, nanos |-> 0] : d \in DaySamples, sd \in SodSamples}
    \cup {[days |-> d, sod |-> 31717, nanos |-> 500000000] : d \in {0, 9076, 2932896}}

Instants ==
  ValidInstants
    \cup {[days |-> d, sod |-> sd, nanos |-> 0] : d \in {0 - 1, 0 - 366, 2932897, 2932898},
                                                 sd \in {0, 86399}}

NoSrc == [kind |-> "none", g |-> 0, t |-> NoTime, f |-> NoDate, mut |-> "none"]

\* an instant written in grammar g under a weekday token: the weekday it
\* falls on, the day after it, or Sunday
WeekdayTokens(t) ==
  LET w == CivilFromDays(t.days, t.sod).wday IN {w, (w % 7) + 1, 7}

InstantInputs ==
  UNION {{[kind |-> "instant", g |-> g, t |-> t,
           f |-> [CivilFromDays(t.days, t.sod) EXCEPT !.wday = w], mut |-> "none"] :
             g \in 1..3, w \in WeekdayTokens(t)} :
         t \in {i \in ValidInstants : i.nanos = 0}}

ClockSamples ==
  {[hour |-> 0, min |-> 0, sec |-> 0], [hour |-> 23, min |-> 59, sec |-> 59],
   [hour |-> 24, min |-> 0, sec |-> 0], [hour |-> 23, min |-> 60, sec |-> 0],
   [hour |-> 23, min |-> 59, sec |-> 60]}

\* field numbers as written, in range or not; year is the token of the
\* grammar (four digits, two digits in grammar 2)
FieldInputs ==
  {[kind |-> "fields", g |-> g, t |-> NoTime,
    f |-> [sec |-> c.sec, min |-> c.min, hour |-> c.hour, day |-> d, mon |-> m,
           year |-> y, wday |-> 3], mut |-> "none"] :
      g \in 1..3, c \in ClockSamples, d \in {0, 1, 28, 29, 30, 31, 32}, m \in {0, 1, 2, 4, 12},
      y \in {1969, 1970, 2001, 2004, 2100, 9999, 0, 1, 4, 70}}

YearInputs ==
  {[kind |-> "fields", g |-> 2, t |-> NoTime,
    f |-> [sec |-> 37, min |-> 48, hour |-> 8, day |-> 7, mon |-> 11, year |-> yy, wday |-> 1],
    mut |-> "none"] : yy \in 0..99}

DamagedInputs ==
  {[kind |-> "damaged", g |-> g, t |-> t, f |-> CivilFromDays(t.days, t.sod), mut |-> m] :
      g \in 1..3, m \in Mutations,
      t \in {[days |-> 9076, sod |-> 31717, nanos |-> 0], [days |-> 11016, sod |-> 0, nanos |-> 0]}}

RawInputs == {[kind |-> "raw", g |-> i, t |-> NoTime, f |-> NoDate, mut |-> "none"] : i \in 1..3}

\* a four-digit year token only fits grammars 1 and 3, a two-digit one grammar 2
FieldFits(i) == IF i.g = 2 THEN i.f.year < 100 ELSE i.f.year >= 1000

Inputs ==
  InstantInputs \cup {i \in FieldInputs : FieldFits(i)} \cup YearInputs \cup DamagedInputs
    \cup RawInputs

RawText(i) ==
  IF i = 1 THEN <<>> ELSE IF i = 2 THEN <<" ">>
  ELSE <<"t","h","i","s","-","i","s","-","n","o","-","d","a","t","e">>

\* in grammar 2 the year is written as its last two digits
WrittenFields(i) ==
  IF i.g = 2 /\ i.kind # "fields" THEN [i.f EXCEPT !.year = i.f.year % 100] ELSE i.f

TextOf(i) ==
  IF i.kind = "raw" THEN RawText(i.g)
  ELSE IF i.kind = "damaged" THEN Mutate(GrammarText(i.g, WrittenFields(i)), i.mut)
  ELSE GrammarText(i.g, WrittenFields(i))

Nov07 == [days |-> 9076, sod |-> 31717, nanos |-> 0]

Nov07Fields == CivilFromDays(9076, 31717)

\* the raw header values an iterator may yield: dates in the three grammars,
\* a padded date, a date with an opaque byte, and two texts that are no date
HeaderValues ==
  {ImfText(Nov07Fields), Rfc850Text([Nov07Fields EXCEPT !.year = 94]),
   AsctimeText([Nov07Fields EXCEPT !.wday = 7]),
   Mutate(ImfText(Nov07Fields), "pad"), Mutate(ImfText(Nov07Fields), "nonascii"),
   <<"<E9>">> \o ImfText(Nov07Fields), RawText(3), RawText(1)}

SeqsUpTo(S, n) == UNION {[1..k -> S] : k \in 0..n}

\* the second operands of a comparison: built from the clock and parsed
Others ==
  {HttpDateFrom(t).val :
     t \in {Nov07, [Nov07 EXCEPT !.sod = 31718], [days |-> 0, sod |-> 0, nanos |-> 0],
            [days |-> 11383, sod |-> 0, nanos |-> 0],
            [days |-> 2932896, sod |-> 86399, nanos |-> 0]}}
    \cup {[Nov07Fields EXCEPT !.wday = 7],
          [sec |-> 0, min |-> 0, hour |-> 0, day |-> 30, mon |-> 2, year |-> 2001, wday |-> 3]}

(***************************************************************************)
(* State: one HttpDate value being built and used.                         *)
(*   last     the operation that ran last                                  *)
(*   src      how the text handed to the parser was built                  *)
(*   text     the text parsed or rendered last                             *)
(*   time     the SystemTime converted from or to                          *)
(*   values   the header values of the iterator / the header value built   *)
(*   date     the HttpDate held (NoDate when none)                         *)
(*   other    the second operand of the last comparison                    *)
(*   cmp      the results of the last comparison                           *)
(*   outcome  "ok", "err" (an Err returned) or "panic"                     *)
(***************************************************************************)
VARIABLES last, src, text, time, values, date, other, cmp, outcome

vars == <<last, src, text, time, values, date, other, cmp, outcome>>

NoCmp == [eq |-> FALSE, ord |-> "none", hashEq |-> FALSE]

OutcomeOf(r) == IF r.panic THEN "panic" ELSE IF r.ok THEN "ok" ELSE "err"

Init ==
  /\ last = "init"
  /\ src = NoSrc
  /\ text = <<>>
  /\ time = NoTime
  /\ values = <<>>
  /\ date = NoDate
  /\ other = NoDate
  /\ cmp = NoCmp
  /\ outcome = "ok"

\* a value has been constructed and is held
Holding == last \in {"from_systime", "from_str", "try_from_values"} /\ outcome = "ok"

\* impl From<SystemTime> for HttpDate (lines 106-110)
FromSystemTime(t) ==
  /\ last = "init"
  /\ \E r \in {HttpDateFrom(t)} :
       /\ date' = r.val
       /\ outcome' = OutcomeOf(r)
  /\ time' = t
  /\ last' = "from_systime"
  /\ UNCHANGED <<src, text, values, other, cmp>>

\* impl FromStr for HttpDate (lines 87-92), on a text built from an input
FromStrInput(i) ==
  /\ last = "init"
  /\ \E str \in {TextOf(i)} :
       /\ text' = str
       /\ \E r \in {from_str(str)} :
            /\ date' = r.val
            /\ outcome' = OutcomeOf(r)
  /\ src' = i
  /\ last' = "from_str"
  /\ UNCHANGED <<time, values, other, cmp>>

\* impl FromStr for HttpDate (lines 87-92), on the text rendered from `date`
FromStrRendered ==
  /\ last = "to_string"
  /\ \E r \in {from_str(text)} :
       /\ date' = r.val
       /\ outcome' = OutcomeOf(r)
  /\ src' = [kind |-> "rendered", g |-> 1, t |-> NoTime, f |-> date, mut |-> "none"]
  /\ last' = "from_str"
  /\ UNCHANGED <<text, time, values, other, cmp>>

\* to_string through impl fmt::Display for HttpDate (lines 100-104)
Display ==
  /\ Holding
  /\ text' = to_string(date)
  /\ last' = "to_string"
  /\ UNCHANGED <<src, time, values, date, other, cmp, outcome>>

\* impl From<&HttpDate> for HeaderValue (lines 78-85)
IntoHeaderValue ==
  /\ Holding
  /\ text' = to_string(date)
  /\ IF into_header_value_ok(date)
     THEN values' = <<to_string(date)>> /\ outcome' = "ok"
     ELSE values' = <<>> /\ outcome' = "panic"
  /\ last' = "into_header_value"
  /\ UNCHANGED <<src, time, date, other, cmp>>

\* impl From<HttpDate> for SystemTime (lines 112-116)
IntoSystemTime ==
  /\ Holding
  /\ time' = SystemTimeFrom(date)
  /\ last' = "into_systime"
  /\ UNCHANGED <<src, text, values, date, other, cmp, outcome>>

\* impl TryFromValues for HttpDate (lines 60-70)
TryFromValues(vals) ==
  /\ last = "init"
  /\ \E r \in {try_from_values(vals)} :
       /\ date' = r.val
       /\ outcome' = OutcomeOf(r)
  /\ values' = vals
  /\ last' = "try_from_values"
  /\ UNCHANGED <<src, text, time, other, cmp>>

\* ==, cmp and hash of the derived impls (line 35) and impl Hash (lines 38-48)
Compare(y) ==
  /\ Holding
  /\ other' = y
  /\ cmp' = [eq |-> HttpDateEq(date, y), ord |-> HttpDateCmp(date, y),
             hashEq |-> HttpDateHash(date) = HttpDateHash(y)]
  /\ last' = "compare"
  /\ UNCHANGED <<src, text, time, values, date, outcome>>

\* the iterators handed to try_from_values: up to MaxValues header values
ValueSeqs == SeqsUpTo(HeaderValues, MaxValues)

Next ==
  \/ \E t \in Instants : FromSystemTime(t)
  \/ \E i \in Inputs : FromStrInput(i)
  \/ FromStrRendered
  \/ Display
  \/ IntoHeaderValue
  \/ IntoSystemTime
  \/ \E vals \in ValueSeqs : TryFromValues(vals)
  \/ \E y \in Others : Compare(y)

Spec == Init /\ [][Next]_vars

(***************************************************************************)
(* Definitions used to state the properties.                               *)
(***************************************************************************)
\* the instant an HttpDate denotes, and the fields computed from it
InstantOf(d) == SystemTimeFrom(d)

Canonical(d) == CivilFromDays(InstantOf(d).days, InstantOf(d).sod)

\* the input is an instant written with the weekday it falls on
RightWeekday(i) == i.f.wday = CivilFromDays(i.t.days, i.t.sod).wday

\* the shape Www, dd Mmm yyyy hh:mm:ss GMT
IsImfShape(str) ==
  /\ Len(str) = 29
  /\ NameIndex(WdayShort, Slice(str, 0, 3)) # 0
  /\ Slice(str, 3, 5) = <<",", " ">>
  /\ IntOk(Slice(str, 5, 7))
  /\ At(str, 7) = " "
  /\ NameIndex(MonShort, Slice(str, 8, 11)) # 0
  /\ At(str, 11) = " "
  /\ IntOk(Slice(str, 12, 16))
  /\ At(str, 16) = " "
  /\ IntOk(Slice(str, 17, 19)) /\ At(str, 19) = ":"
  /\ IntOk(Slice(str, 20, 22)) /\ At(str, 22) = ":"
  /\ IntOk(Slice(str, 23, 25))
  /\ Slice(str, 25, 29) = GMT

\* the calendar: days of a month of a year
DaysIn(m, y) ==
  IF m = 2 THEN (IF y % 4 = 0 /\ (y % 100 # 0 \/ y % 400 = 0) THEN 29 ELSE 28)
  ELSE IF m \in {4, 6, 9, 11} THEN 30 ELSE 31

\* the year a written year token stands for (00-68 and 70-99 of grammar 2,
\* where both window rules agree)
WrittenYear(i) ==
  IF i.g = 2 THEN (IF i.f.year < 69 THEN 2000 + i.f.year ELSE 1900 + i.f.year) ELSE i.f.year

\* a field of the input is out of range (a second of 60 is treated apart)
OutOfRange(i) ==
  \/ i.f.mon = 0
  \/ i.f.day < 1
  \/ i.f.day > 31
  \/ (i.f.mon # 0 /\ i.f.day > DaysIn(i.f.mon, WrittenYear(i)))
  \/ i.f.hour > 23
  \/ i.f.min > 59
  \/ i.f.sec > 60

\* the header values of the pool that are text and parse as a date
DateValues ==
  {ImfText(Nov07Fields), Rfc850Text([Nov07Fields EXCEPT !.year = 94]),
   AsctimeText([Nov07Fields EXCEPT !.wday = 7]), Mutate(ImfText(Nov07Fields), "pad")}

(***************************************************************************)
(* C1.  Round trip: a value rendered with to_string and parsed back gives  *)
(* Ok and a value equal to the one rendered.                               *)
(***************************************************************************)
C1_RoundTrip ==
  (last = "from_str" /\ src.kind = "rendered") => (outcome = "ok" /\ HttpDateEq(date, src.f))

C1_Witness ==
  /\ last = "from_str" /\ src.kind = "rendered" /\ outcome = "ok"
  /\ src.f.year = 9999 /\ src.f.day = 31 /\ src.f.sec = 59

(***************************************************************************)
(* C2.  Format equivalence as claimed: an instant written in any of the    *)
(* three grammars parses, to a value equal to the HttpDate built from the   *)
(* instant and denoting that instant.                                      *)
(***************************************************************************)
C2_AnyInstant ==
  (last = "from_str" /\ src.kind = "instant" /\ RightWeekday(src))
    => /\ outcome = "ok"
       /\ HttpDateEq(date, HttpDateFrom(src.t).val)
       /\ InstantOf(date) = src.t

(***************************************************************************)
(* C2 amended.  The equivalence holds for the instants of 1970 to 2069; a  *)
(* later instant (up to 9999) parses to the HttpDate of the instant from   *)
(* grammars 1 and 3 only, the two-digit year of grammar 2 standing for a   *)
(* year of 1970 to 2069.                                                   *)
(***************************************************************************)
C2_Equivalence ==
  (last = "from_str" /\ src.kind = "instant" /\ RightWeekday(src))
    => /\ outcome = "ok"
       /\ (src.g # 2 \/ src.f.year \in 1970..2069)
            => HttpDateEq(date, HttpDateFrom(src.t).val) /\ InstantOf(date) = src.t
       /\ (src.g = 2) => date.year \in 1970..2069 /\ date.year % 100 = src.f.year % 100

C2_Witness ==
  /\ last = "from_str" /\ src.kind = "instant" /\ RightWeekday(src) /\ src.g = 3
  /\ src.f.day < 10 /\ outcome = "ok" /\ date.year = 2000 /\ date.mon = 3

(***************************************************************************)
(* C3.  Weekday correction: a text whose weekday token disagrees with its  *)
(* date parses, to the same value as with the right token, and rendering   *)
(* prints the weekday computed from the instant, not the token parsed.     *)
(***************************************************************************)
C3_WeekdayCorrection ==
  /\ (last = "from_str" /\ src.kind = "instant" /\ (src.g # 2 \/ src.f.year \in 1970..2069))
       => (outcome = "ok" /\ HttpDateEq(date, HttpDateFrom(src.t).val))
  /\ (last = "to_string") => Slice(text, 0, 3) = WdayShort[Canonical(date).wday]

C5_EqOrdHash ==
  (last = "compare")
    => /\ cmp.eq <=> (InstantOf(date) = InstantOf(other))
       /\ cmp.eq <=> (cmp.ord = "Equal")
       /\ (cmp.ord = "Less")
            <=> \/ InstantOf(date).days < InstantOf(other).days
                \/ /\ InstantOf(date).days = InstantOf(other).days
                   /\ InstantOf(date).sod < InstantOf(other).sod
       /\ cmp.eq => cmp.hashEq

C5_Witness == last = "compare" /\ cmp.eq /\ date # other /\ src.g = 2

(***************************************************************************)
(* C6.  Canonical output: to_string gives 29 characters of the shape       *)
(* Www, dd Mmm yyyy hh:mm:ss GMT, all ASCII, and the conversion to a       *)
(* HeaderValue succeeds with that text.                                    *)
(***************************************************************************)
C6_CanonicalShape ==
  /\ (last \in {"to_string", "into_header_value"})
       => /\ Len(text) = 29
          /\ IsImfShape(text)
          /\ \A i \in 1..Len(text) : IsAsciiChar(text[i]) /\ IsVisibleAscii(text[i])
  /\ (last = "into_header_value") => (outcome = "ok" /\ values = <<text>>)

C6_Witness ==
  /\ last = "into_header_value" /\ outcome = "ok" /\ date.day < 10 /\ date.year = 9999

(***************************************************************************)
(* C7.  Two-digit years as claimed: 00-68 give 2000+yy, 69-99 give 1900+yy.*)
(***************************************************************************)
C7_Window68 ==
  (last = "from_str" /\ src \in YearInputs)
    => /\ outcome = "ok"
       /\ date.year = (IF src.f.year <= 68 THEN 2000 + src.f.year ELSE 1900 + src.f.year)

(***************************************************************************)
(* C7 amended.  Two-digit years 00-69 give 2000+yy, 70-99 give 1900+yy.    *)
(***************************************************************************)
C7_Window69 ==
  (last = "from_str" /\ src \in YearInputs)
    => /\ outcome = "ok"
       /\ date.year = (IF src.f.year <= 69 THEN 2000 + src.f.year ELSE 1900 + src.f.year)

C7_Witness ==
  last = "from_str" /\ src \in YearInputs /\ src.f.year = 69 /\ outcome = "ok" /\ date.year = 2069

(***************************************************************************)
(* C8.  Field ranges: a well-shaped text with an unknown month, a day      *)
(* outside 1..31 or not in its month, an hour above 23, a minute above 59  *)
(* or a second above 60 gives Err; a second of 60 gives Err or second 59.  *)
(***************************************************************************)
C8_FieldRanges ==
  /\ (last = "from_str" /\ src.kind = "fields" /\ OutOfRange(src)) => outcome = "err"
  /\ (last = "from_str" /\ src.kind = "fields" /\ src.f.sec = 60)
       => (outcome = "err" \/ date.sec = 59)

(***************************************************************************)
(* C9.  Construction from a SystemTime never fails, whatever the instant.  *)
(***************************************************************************)
C9_Total == (last = "from_systime") => (outcome = "ok" /\ date # NoDate)

(***************************************************************************)
(* C10.  try_from_values gives Ok exactly when the iterator yields one     *)
(* value and that value is text that parses as a date; it then gives that  *)
(* date, and otherwise the invalid-header error and no date.               *)
(***************************************************************************)
C10_JustOne ==
  (last = "try_from_values")
    => /\ (outcome = "ok") <=> (Len(values) = 1 /\ values[1] \in DateValues)
       /\ (outcome = "ok") => HttpDateEq(date, Nov07Fields)
       /\ (outcome # "ok") => (outcome = "err" /\ date = NoDate)

C10_Witness ==
  /\ last = "try_from_values" /\ Len(values) = 2 /\ values[1] \in DateValues
  /\ outcome = "err"

====
